---- MODULE Spec2Model ----
(***************************************************************************)
(* Model of the btcmarkets REST client (src/rest_interface.py).            *)
(*                                                                         *)
(* Strings are sequences of one-character strings, bytes are sequences of  *)
(* code points, so that formatting (f-strings), str.encode and the         *)
(* concatenations of request() are computed and not assumed.  An optional  *)
(* value (Python None or a value) is a sequence of length 0 or 1.          *)
(* HMAC-SHA512 and base64 are abstract constructors: a digest is the       *)
(* record of the key and the message it was computed over.                 *)
(***************************************************************************)
EXTENDS Integers, Sequences, FiniteSets, TLC

VARIABLES clock, pc, op, path, data, timestamp, payload, signature, header,
          req, answer, outcome, fetches, calls, invoked, sent, sendTimes

vars == <<clock, pc, op, path, data, timestamp, payload, signature, header,
          req, answer, outcome, fetches, calls, invoked, sent, sendTimes>>

(* ---------------------------------------------------------------------- *)
(* Bounds of the model                                                     *)
(* ---------------------------------------------------------------------- *)
MaxTicks == 2
TickMs == 5000
MaxCalls == 1
MaxEntries == 2

Callers == {"t1", "t2"}

(* ---------------------------------------------------------------------- *)
(* Strings, numbers and bytes                                              *)
(* ---------------------------------------------------------------------- *)
None == << >>
Some(x) == <<x>>

\* ASCII 32..95 and 97..126 (code 96 cannot be written in a TLA+ string)
AsciiLow == <<" ","!","\"","#","$","%","&","'","(",")","*","+",",","-",".","/","0","1","2","3","4","5","6","7","8","9",":",";","<","=",">","?","@","A","B","C","D","E","F","G","H","I","J","K","L","M","N","O","P","Q","R","S","T","U","V","W","X","Y","Z","[","\\","]","^","_">>

AsciiHigh == <<"a","b","c","d","e","f","g","h","i","j","k","l","m","n","o","p","q","r","s","t","u","v","w","x","y","z","{","|","}","~">>

Digits == <<"0","1","2","3","4","5","6","7","8","9">>

IndexIn(tbl, c) == CHOOSE i \in 1..Len(tbl) : tbl[i] = c

\* the code point of every ASCII character the client can emit
CodePoint ==
    [c \in {"\n"} \cup {AsciiLow[i] : i \in 1..Len(AsciiLow)}
              \cup {AsciiHigh[i] : i \in 1..Len(AsciiHigh)} |->
        IF c = "\n" THEN 10
        ELSE IF \E i \in 1..Len(AsciiLow) : AsciiLow[i] = c
             THEN 31 + IndexIn(AsciiLow, c)
             ELSE 96 + IndexIn(AsciiHigh, c)]

\* ord(c) of an ASCII character
Ord(c) == CodePoint[c]

\* chr(n), the inverse of Ord
Chr(n) == IF n = 10 THEN "\n"
          ELSE IF n < 96 THEN AsciiLow[n - 31] ELSE AsciiHigh[n - 96]

\* str.encode(): the UTF-8 bytes of an ASCII string
Encode(s) == [i \in 1..Len(s) |-> Ord(s[i])]

\* bytes.decode(), as the server does on what it receives
Decode(b) == [i \in 1..Len(b) |-> Chr(b[i])]

\* f"{n}" of a non-negative int: its decimal digits
RECURSIVE Dec(_)
Dec(n) == IF n < 10 THEN <<Digits[n + 1]>>
          ELSE Dec(n \div 10) \o <<Digits[(n % 10) + 1]>>

\* f"{order_ids}" of a list of ints: "[1, 2]"
RECURSIVE Joined(_)
Joined(ids) == IF Len(ids) = 0 THEN << >>
               ELSE IF Len(ids) = 1 THEN Dec(ids[1])
               ELSE Dec(ids[1]) \o <<","," ">> \o Joined(Tail(ids))

ListRepr(ids) == <<"[">> \o Joined(ids) \o <<"]">>

(* ---------------------------------------------------------------------- *)
(* The operations of RESTInterface: each builds the arguments (path, data) *)
(* it passes to request()                                                  *)
(* ---------------------------------------------------------------------- *)
api_url == <<"h","t","t","p","s",":","/","/","a","p","i",".","b","t","c","m","a","r","k","e","t","s",".","n","e","t">>

Args(p, d) == [path |-> p, data |-> d]

balances == Args(<<"/","a","c","c","o","u","n","t","/","b","a","l","a","n","c","e">>, None)

fee(instrument, currency) ==
    Args(<<"/","a","c","c","o","u","n","t","/">> \o instrument \o <<"/">> \o currency \o <<"/","t","r","a","d","i","n","g","f","e","e">>, None)

market_tick(instrument, currency) ==
    Args(<<"/","m","a","r","k","e","t","/">> \o instrument \o <<"/">> \o currency \o <<"/","t","i","c","k">>, None)

market_orderbook(instrument, currency) ==
    Args(<<"/","m","a","r","k","e","t","/">> \o instrument \o <<"/">> \o currency \o <<"/","o","r","d","e","r","b","o","o","k">>, None)

market_trades(instrument, currency, since_id) ==
    LET since == IF since_id = None THEN << >>
                 ELSE <<"?","s","i","n","c","e","=">> \o Dec(since_id[1])
    IN  Args(<<"/","m","a","r","k","e","t","/">> \o instrument \o <<"/">> \o currency \o <<"/","t","r","a","d","e","s">> \o since,
             None)

create_order(instrument, currency, price, volume, order_side, order_type) ==
    Args(<<"/","o","r","d","e","r","/","c","r","e","a","t","e">>,
         Some(<<"{","\"","c","u","r","r","e","n","c","y","\"",":","\"">> \o currency \o <<"\"",",","\"","i","n","s","t","r","u","m","e","n","t","\"",":","\"">> \o instrument
              \o <<"\"",",">> \o <<"\"","p","r","i","c","e","\"",":">> \o Dec(price) \o <<",","\"","v","o","l","u","m","e","\"",":">> \o Dec(volume)
              \o <<",","\"","o","r","d","e","r","S","i","d","e","\"",":","\"">> \o order_side \o <<"\"",",">>
              \o <<"\"","o","r","d","e","r","t","y","p","e","\"",":","\"">> \o order_type \o <<"\"",",","\"","c","l","i","e","n","t","R","e","q","u","e","s","t","I","d","\"",":","\"","N","A","\"","}">>))

MarketAskSwapped(instrument, currency, volume) ==
    create_order(instrument, currency, 0, volume, <<"B","i","d">>, <<"M","a","r","k","e","t">>)

market_bid(instrument, currency, volume) ==
    create_order(instrument, currency, 0, volume, <<"B","i","d">>, <<"M","a","r","k","e","t">>)

market_ask(instrument, currency, volume) ==
    create_order(instrument, currency, 0, volume, <<"A","s","k">>, <<"M","a","r","k","e","t">>)

limit_bid(instrument, currency, price, volume) ==
    create_order(instrument, currency, price, volume, <<"B","i","d">>, <<"L","i","m","i","t">>)

limit_ask(instrument, currency, price, volume) ==
    create_order(instrument, currency, price, volume, <<"A","s","k">>, <<"L","i","m","i","t">>)

cancel_order(order_ids) ==
    Args(<<"/","o","r","d","e","r","/","c","a","n","c","e","l">>, Some(<<"{","\"","o","r","d","e","r","I","d","s","\"",":">> \o ListRepr(order_ids) \o <<"}">>))

order_detail(order_ids) ==
    Args(<<"/","o","r","d","e","r","/","d","e","t","a","i","l">>, Some(<<"{","\"","o","r","d","e","r","I","d","s","\"",":">> \o ListRepr(order_ids) \o <<"}">>))

HistoryData(instrument, currency, limit, since_id) ==
    <<"{","\"","c","u","r","r","e","n","c","y","\"",":","\"">> \o currency \o <<"\"",",","\"","i","n","s","t","r","u","m","e","n","t","\"",":","\"">> \o instrument \o <<"\"",",">>
    \o <<"\"","l","i","m","i","t","\"",":">> \o Dec(limit) \o <<",","\"","s","i","n","c","e","\"",":">> \o Dec(since_id) \o <<"}">>

order_history(instrument, currency, limit, since_id) ==
    Args(<<"/","o","r","d","e","r","/","h","i","s","t","o","r","y">>, Some(HistoryData(instrument, currency, limit, since_id)))

order_open_history(instrument, currency, limit, since_id) ==
    Args(<<"/","o","r","d","e","r","/","o","p","e","n">>, Some(HistoryData(instrument, currency, limit, since_id)))

order_trade_history(instrument, currency, limit, since_id) ==
    Args(<<"/","o","r","d","e","r","/","t","r","a","d","e","/","h","i","s","t","o","r","y">>,
         Some(HistoryData(instrument, currency, limit, since_id)))

withdraw_crypto(amount, address, currency) ==
    Args(<<"/","f","u","n","d","t","r","a","n","s","f","e","r","/","w","i","t","h","d","r","a","w","C","r","y","p","t","o">>,
         Some(<<"{","\"","a","m","o","u","n","t","\"",":">> \o Dec(amount) \o <<",","\"","a","d","d","r","e","s","s","\"",":","\"">> \o address
              \o <<"\"",",","\"","c","u","r","r","e","n","c","y","\"",":","\"">> \o currency \o <<"\"","}">>))

withdraw_eft(account_name, account_number, bank_name, bsb_number, amount, currency) ==
    Args(<<"/","f","u","n","d","t","r","a","n","s","f","e","r","/","w","i","t","h","d","r","a","w","E","F","T">>,
         Some(<<"{","\"","a","c","c","o","u","n","t","N","a","m","e","\"",":","\"">> \o account_name \o <<"\"",",","\"","a","c","c","o","u","n","t","N","u","m","b","e","r","\"",":","\"">>
              \o account_number \o <<"\"",",">> \o <<"\"","b","a","n","k","N","a","m","e","\"",":","\"">> \o bank_name
              \o <<"\"",",","\"","b","s","b","N","u","m","b","e","r","\"",":","\"">> \o bsb_number \o <<"\"",",">>
              \o <<"\"","a","m","o","u","n","t","\"",":">> \o Dec(amount) \o <<",","\"","c","u","r","r","e","n","c","y","\"",":","\"">> \o currency
              \o <<"\"","}">>))

transfer_history == Args(<<"/","f","u","n","d","t","r","a","n","s","f","e","r","/","h","i","s","t","o","r","y">>, None)

\* balance(): the list comprehension over the fetched entries, then the
\* first element, or 0 when the comprehension is empty
BalanceLast(fetched, currency) ==
    LET balance == SelectSeq(fetched, LAMBDA b : b.currency = currency)
    IN  IF Len(balance) = 0 THEN 0 ELSE balance[Len(balance)].balance

balance(fetched, currency) ==
    LET balance == SelectSeq(fetched, LAMBDA b : b.currency = currency)
    IN  IF Len(balance) = 0 THEN 0 ELSE balance[1].balance

(* ---------------------------------------------------------------------- *)
(* Invocations: an operation name with its arguments                       *)
(* ---------------------------------------------------------------------- *)
Instruments == {<<"B","T","C">>, <<"E","T","H">>}
Currencies == {<<"A","U","D">>, <<"B","T","C">>}
Prices == {12345678, 250}
Volumes == {100000000, 3}
Sides == {<<"B","i","d">>, <<"A","s","k">>}
Types == {<<"M","a","r","k","e","t">>, <<"L","i","m","i","t">>}
IdLists == {<< >>, <<7>>, <<7, 12>>}
SinceIds == {None, Some(42)}

MarketCalls(names) == [name : names, instrument : {<<"B","T","C">>}, currency : {<<"A","U","D">>}]

HistoryCalls(names) ==
    [name : names, instrument : {<<"B","T","C">>}, currency : {<<"A","U","D">>}, limit : {10},
     since_id : {0}]

ReadOps ==
    [name : {"balances", "transfer_history"}]
    \cup [name : {"balance"}, currency : Currencies]
    \cup MarketCalls({"fee", "market_tick", "best_ask", "best_bid", "market_orderbook"})
    \cup [name : {"market_trades"}, instrument : {<<"B","T","C">>}, currency : {<<"A","U","D">>},
          since_id : SinceIds]
    \cup [name : {"order_detail"}, order_ids : IdLists]
    \cup HistoryCalls({"order_history", "order_open_history", "order_trade_history"})

OrderOps ==
    [name : {"create_order"}, instrument : Instruments, currency : {<<"A","U","D">>},
     price : Prices, volume : Volumes, order_side : Sides, order_type : Types]
    \cup [name : {"market_bid", "market_ask"}, instrument : Instruments,
          currency : {<<"A","U","D">>}, volume : Volumes]
    \cup [name : {"limit_bid", "limit_ask"}, instrument : Instruments,
          currency : {<<"A","U","D">>}, price : Prices, volume : Volumes]
    \cup [name : {"cancel_order"}, order_ids : IdLists]

WithdrawOps ==
    [name : {"withdraw_crypto"}, amount : Volumes, address : {<<"1","A","2","b">>},
     currency : {<<"B","T","C">>}]
    \cup [name : {"withdraw_eft"}, account_name : {<<"J"," ","D","o","e">>},
          account_number : {<<"1","2","3","4","5","6">>}, bank_name : {<<"C","B","A">>},
          bsb_number : {<<"0","6","2","0","0","0">>}, amount : Volumes, currency : {<<"A","U","D">>}]

AllOps == ReadOps \cup OrderOps \cup WithdrawOps

WithdrawNames == {"withdraw_crypto", "withdraw_eft"}

NonIdempotent == {"create_order", "market_bid", "market_ask", "limit_bid",
                  "limit_ask", "cancel_order"} \cup WithdrawNames

\* the path each withdrawal operation posts to
WithdrawPath(name) ==
    IF name = "withdraw_crypto" THEN <<"/","f","u","n","d","t","r","a","n","s","f","e","r","/","w","i","t","h","d","r","a","w","C","r","y","p","t","o">>
    ELSE <<"/","f","u","n","d","t","r","a","n","s","f","e","r","/","w","i","t","h","d","r","a","w","E","F","T">>

\* the arguments operation o passes to request()
RequestArgs(o) ==
    CASE o.name \in {"balances", "balance"} -> balances
      [] o.name = "fee" -> fee(o.instrument, o.currency)
      [] o.name \in {"market_tick", "best_ask", "best_bid"} ->
            market_tick(o.instrument, o.currency)
      [] o.name = "market_orderbook" -> market_orderbook(o.instrument, o.currency)
      [] o.name = "market_trades" ->
            market_trades(o.instrument, o.currency, o.since_id)
      [] o.name = "create_order" ->
            create_order(o.instrument, o.currency, o.price, o.volume,
                         o.order_side, o.order_type)
      [] o.name = "market_bid" -> market_bid(o.instrument, o.currency, o.volume)
      [] o.name = "market_ask" -> market_ask(o.instrument, o.currency, o.volume)
      [] o.name = "limit_bid" ->
            limit_bid(o.instrument, o.currency, o.price, o.volume)
      [] o.name = "limit_ask" ->
            limit_ask(o.instrument, o.currency, o.price, o.volume)
      [] o.name = "cancel_order" -> cancel_order(o.order_ids)
      [] o.name = "order_detail" -> order_detail(o.order_ids)
      [] o.name = "order_history" ->
            order_history(o.instrument, o.currency, o.limit, o.since_id)
      [] o.name = "order_open_history" ->
            order_open_history(o.instrument, o.currency, o.limit, o.since_id)
      [] o.name = "order_trade_history" ->
            order_trade_history(o.instrument, o.currency, o.limit, o.since_id)
      [] o.name = "withdraw_crypto" ->
            withdraw_crypto(o.amount, o.address, o.currency)
      [] o.name = "withdraw_eft" ->
            withdraw_eft(o.account_name, o.account_number, o.bank_name,
                         o.bsb_number, o.amount, o.currency)
      [] o.name = "transfer_history" -> transfer_history

\* the throttle class the class docstring puts each operation in
Bucket(name) ==
    IF name \in {"create_order", "market_bid", "market_ask", "limit_bid",
                 "limit_ask", "cancel_order", "order_detail",
                 "order_open_history", "balance", "balances", "market_tick",
                 "best_ask", "best_bid", "market_orderbook", "market_trades"}
    THEN "fast"
    ELSE IF name \in {"order_history", "order_trade_history", "fee",
                      "withdraw_crypto", "withdraw_eft"}
    THEN "slow"
    ELSE "unlisted"

FastLimit == 25
SlowLimit == 10
WindowMs == 10000

BucketLimit(b) == IF b = "fast" THEN FastLimit ELSE SlowLimit

(* ---------------------------------------------------------------------- *)
(* The transport (urllib.request.urlopen) and the decoded responses        *)
(* ---------------------------------------------------------------------- *)
BalanceEntries == [currency : Currencies, balance : {5, 7}, pendingFunds : {0}]

RECURSIVE ListsUpTo(_, _)
ListsUpTo(S, n) ==
    IF n = 0 THEN {<< >>}
    ELSE LET shorter == ListsUpTo(S, n - 1)
         IN  shorter \cup {Append(l, e) : l \in shorter, e \in S}

BalanceLists == ListsUpTo(BalanceEntries, MaxEntries)

TickJsons == [bestBid : {640}, bestAsk : {641, 650}, lastPrice : {640}]

CancelJsons(ids) ==
    {[success |-> s,
      responses |-> [i \in 1..Len(ids) |-> [id |-> ids[i], success |-> r]]] :
        s \in BOOLEAN, r \in BOOLEAN}

\* the JSON bodies a 2xx response to operation o can carry
Jsons(o) ==
    CASE o.name \in {"balances", "balance"} -> BalanceLists
      [] o.name \in {"market_tick", "best_ask", "best_bid"} -> TickJsons
      [] o.name = "cancel_order" -> CancelJsons(o.order_ids)
      [] OTHER -> [success : BOOLEAN]

Failures ==
    {[kind |-> "connect_timeout"], [kind |-> "read_timeout"],
     [kind |-> "refused"]}
    \cup [kind : {"status"}, code : {400, 503}]

Answers(o) == {[kind |-> "ok", json |-> j] : j \in Jsons(o)} \cup Failures

\* urlopen() then json.load(): the decoded body of a 2xx response, or the
\* exception urllib raises, which request() does not catch
UrlopenResult(ans) ==
    CASE ans.kind = "ok" -> [kind |-> "return", value |-> ans.json]
      [] ans.kind = "status" ->
            [kind |-> "raise", exc |-> "HTTPError", code |-> ans.code]
      [] ans.kind = "read_timeout" -> [kind |-> "raise", exc |-> "timeout"]
      [] OTHER -> [kind |-> "raise", exc |-> "URLError", reason |-> ans.kind]

\* what operation o does with the outcome r of its request() call
OpResultSwallow(o, r) ==
    IF r.kind = "raise"
    THEN IF o.name = "balance" THEN [kind |-> "return", value |-> 0] ELSE r
    ELSE CASE o.name = "balance" ->
                [kind |-> "return", value |-> balance(r.value, o.currency)]
           [] o.name = "best_ask" -> [kind |-> "return", value |-> r.value.bestAsk]
           [] o.name = "best_bid" -> [kind |-> "return", value |-> r.value.bestBid]
           [] OTHER -> r

OpResult(o, r) ==
    IF r.kind = "raise" THEN r
    ELSE CASE o.name = "balance" ->
                [kind |-> "return", value |-> balance(r.value, o.currency)]
           [] o.name = "best_ask" -> [kind |-> "return", value |-> r.value.bestAsk]
           [] o.name = "best_bid" -> [kind |-> "return", value |-> r.value.bestBid]
           [] OTHER -> r

\* where request() goes once urlopen has answered: it returns or raises,
\* it never sends again
PcRetryOnFailure(ans) == IF ans.kind = "ok" THEN "done" ELSE "signed"

PcAfterAnswer(ans) == "done"

(* ---------------------------------------------------------------------- *)
(* request(): credential, canonical message, signature, headers            *)
(* ---------------------------------------------------------------------- *)
key == "public_key"
secret == [b64decode |-> "private_key"]

Hmac(k, msg) == [hmac_sha512 |-> k, msg |-> msg]
B64(digest) == [b64encode |-> digest]

\* int(time.time() * 1000)
Time == clock * TickMs

PayloadTextNone(p, ts, d) ==
    p \o <<"\n">> \o Dec(ts) \o <<"\n">> \o (IF d = None THEN <<"N","o","n","e">> ELSE d[1])

PayloadText(p, ts, d) ==
    p \o <<"\n">> \o Dec(ts) \o <<"\n">> \o (IF d = None THEN << >> ELSE d[1])

EncodeData(d) == IF d = None THEN None ELSE Some(Encode(d[1]))

HeaderTimestampReread(c) == Time

HeaderTimestamp(c) == timestamp[c]

Header(c) ==
    [Accept |-> "application/json", AcceptCharset |-> "UTF-8",
     ContentType |-> "application/json", apikey |-> key,
     timestamp |-> HeaderTimestamp(c), signature |-> signature[c]]

Strip(p) ==
    LET q == CHOOSE i \in 1..(Len(p) + 1) :
                 /\ i = Len(p) + 1 \/ p[i] = "?"
                 /\ \A j \in 1..(i - 1) : p[j] # "?"
    IN  SubSeq(p, 1, q - 1)

RequestUrlNoQuery(p) == api_url \o Strip(p)

RequestUrl(p) == api_url \o p

Request(c) == [url |-> RequestUrl(path[c]), data |-> data[c], headers |-> Header(c)]

(* ---------------------------------------------------------------------- *)
(* State machine                                                           *)
(* ---------------------------------------------------------------------- *)
NoOp == [name |-> "none"]
NoValue == [kind |-> "none"]

Init ==
    /\ clock = 0
    /\ pc = [c \in Callers |-> "idle"]
    /\ op = [c \in Callers |-> NoOp]
    /\ path = [c \in Callers |-> << >>]
    /\ data = [c \in Callers |-> None]
    /\ timestamp = [c \in Callers |-> 0]
    /\ payload = [c \in Callers |-> << >>]
    /\ signature = [c \in Callers |-> NoValue]
    /\ header = [c \in Callers |-> NoValue]
    /\ req = [c \in Callers |-> NoValue]
    /\ answer = [c \in Callers |-> NoValue]
    /\ outcome = [c \in Callers |-> NoValue]
    /\ fetches = [c \in Callers |-> 0]
    /\ calls = 0
    /\ invoked = [n \in WithdrawNames |-> 0]
    /\ sent = [n \in WithdrawNames |-> 0]
    /\ sendTimes = [b \in {"fast", "slow"} |-> << >>]

\* the send times that lie in the 10-second window ending at now
RecentAt(times, now) == SelectSeq(times, LAMBDA t : t > now - WindowMs)

Recent(times) == RecentAt(times, Time)

\* the wall clock advances; send times older than the window are forgotten
Tick ==
    /\ clock < MaxTicks
    /\ clock' = clock + 1
    /\ sendTimes' = [b \in DOMAIN sendTimes |->
                        RecentAt(sendTimes[b], (clock + 1) * TickMs)]
    /\ UNCHANGED <<pc, op, path, data, timestamp, payload, signature, header,
                   req, answer, outcome, fetches, calls, invoked, sent>>

\* caller c invokes operation o, which builds path and data and enters
\* request(); at most cap invocations are made in a run
Call(c, o, cap) ==
    /\ pc[c] = "idle"
    /\ calls < cap
    /\ calls' = calls + 1
    /\ pc' = [pc EXCEPT ![c] = "called"]
    /\ op' = [op EXCEPT ![c] = o]
    /\ path' = [path EXCEPT ![c] = RequestArgs(o).path]
    /\ data' = [data EXCEPT ![c] = RequestArgs(o).data]
    /\ fetches' = [fetches EXCEPT ![c] = 0]
    /\ invoked' = IF o.name \in WithdrawNames
                  THEN [invoked EXCEPT ![o.name] = @ + 1]
                  ELSE invoked
    /\ UNCHANGED <<clock, timestamp, payload, signature, header, req, answer,
                   outcome, sent, sendTimes>>

\* timestamp = int(time.time() * 1000)
Stamp(c) ==
    /\ pc[c] = "called"
    /\ pc' = [pc EXCEPT ![c] = "stamped"]
    /\ timestamp' = [timestamp EXCEPT ![c] = Time]
    /\ UNCHANGED <<clock, op, path, data, payload, signature, header, req,
                   answer, outcome, fetches, calls, invoked, sent, sendTimes>>

\* the payload is built and encoded, data is encoded, the payload is signed
Sign(c) ==
    /\ pc[c] = "stamped"
    /\ pc' = [pc EXCEPT ![c] = "signed"]
    /\ payload' = [payload EXCEPT
                     ![c] = Encode(PayloadText(path[c], timestamp[c], data[c]))]
    /\ data' = [data EXCEPT ![c] = EncodeData(data[c])]
    /\ signature' = [signature EXCEPT ![c] = B64(Hmac(secret, payload'[c]))]
    /\ UNCHANGED <<clock, op, path, timestamp, header, req, answer, outcome,
                   fetches, calls, invoked, sent, sendTimes>>


\* the header and the Request are built and urlopen() hands the request
\* to the transport
Send(c) ==
    /\ pc[c] = "signed"
    /\ pc' = [pc EXCEPT ![c] = "waiting"]
    /\ header' = [header EXCEPT ![c] = Header(c)]
    /\ req' = [req EXCEPT ![c] = Request(c)]
    /\ fetches' = [fetches EXCEPT ![c] = @ + 1]
    /\ sent' = IF \E n \in WithdrawNames : path[c] = WithdrawPath(n)
               THEN [sent EXCEPT
                       ![CHOOSE n \in WithdrawNames : path[c] = WithdrawPath(n)]
                           = @ + 1]
               ELSE sent
    /\ sendTimes' = IF Bucket(op[c].name) \in DOMAIN sendTimes
                    THEN [sendTimes EXCEPT
                            ![Bucket(op[c].name)] = Append(Recent(@), Time)]
                    ELSE sendTimes
    /\ UNCHANGED <<clock, op, path, data, timestamp, payload, signature,
                   answer, outcome, calls, invoked>>

\* the transport answers ans; request() returns the decoded body or the
\* exception propagates through the operation to the caller
Respond(c, ans) ==
    /\ pc[c] = "waiting"
    /\ pc' = [pc EXCEPT ![c] = PcAfterAnswer(ans)]
    /\ answer' = [answer EXCEPT ![c] = ans]
    /\ outcome' = [outcome EXCEPT ![c] = OpResult(op[c], UrlopenResult(ans))]
    /\ UNCHANGED <<clock, op, path, data, timestamp, payload, signature,
                   header, req, fetches, calls, invoked, sent, sendTimes>>

\* the caller has the outcome; the locals of the call are gone
Return(c) ==
    /\ pc[c] = "done"
    /\ pc' = [pc EXCEPT ![c] = "idle"]
    /\ op' = [op EXCEPT ![c] = NoOp]
    /\ path' = [path EXCEPT ![c] = << >>]
    /\ data' = [data EXCEPT ![c] = None]
    /\ timestamp' = [timestamp EXCEPT ![c] = 0]
    /\ payload' = [payload EXCEPT ![c] = << >>]
    /\ signature' = [signature EXCEPT ![c] = NoValue]
    /\ header' = [header EXCEPT ![c] = NoValue]
    /\ req' = [req EXCEPT ![c] = NoValue]
    /\ answer' = [answer EXCEPT ![c] = NoValue]
    /\ outcome' = [outcome EXCEPT ![c] = NoValue]
    /\ fetches' = [fetches EXCEPT ![c] = 0]
    /\ UNCHANGED <<clock, calls, invoked, sent, sendTimes>>

\* one caller, every operation, every answer of the transport
Next ==
    \/ \E o \in AllOps : Call("t1", o, MaxCalls)
    \/ Stamp("t1")
    \/ Sign("t1")
    \/ Send("t1")
    \/ \E ans \in Answers(op["t1"]) : Respond("t1", ans)
    \/ Return("t1")
    \/ Tick

Spec == Init /\ [][Next]_vars

\* several callers share one client and their calls interleave
ConcOps ==
    {o \in WithdrawOps : o.amount = 3}
    \cup [name : {"market_trades"}, instrument : {<<"B","T","C">>}, currency : {<<"A","U","D">>},
          since_id : {Some(42)}]

ConcAnswers(o) == {a \in Answers(o) : a.kind \in {"ok", "read_timeout", "status"}}

NextConc ==
    \/ \E c \in Callers, o \in ConcOps : Call(c, o, MaxCalls + 1)
    \/ \E c \in Callers : Stamp(c)
    \/ \E c \in Callers : Sign(c)
    \/ \E c \in Callers : Send(c)
    \/ \E c \in Callers : \E ans \in ConcAnswers(op[c]) : Respond(c, ans)
    \/ \E c \in Callers : Return(c)
    \/ Tick

SpecConc == Init /\ [][NextConc]_vars

\* one caller issues requests of both throttle classes back to back
RateOps == MarketCalls({"market_tick", "fee"})

RateAnswers(o) == {a \in Answers(o) : a.kind = "ok"}

NextRate ==
    \/ \E o \in RateOps : Call("t1", o, FastLimit + 1)
    \/ Stamp("t1")
    \/ Sign("t1")
    \/ Send("t1")
    \/ \E ans \in RateAnswers(op["t1"]) : Respond("t1", ans)
    \/ Return("t1")
    \/ Tick

SpecRate == Init /\ [][NextRate]_vars

(* ---------------------------------------------------------------------- *)
(* What the server sees: it splits the signed message at its newlines,     *)
(* reads decimal numbers and JSON fields                                   *)
(* ---------------------------------------------------------------------- *)
Min(S) == CHOOSE x \in S : \A y \in S : x <= y

Newlines(s) == {i \in 1..Len(s) : s[i] = "\n"}

\* a message split at its first two newlines: "<path>\n<timestamp>\n<body>"
Split(s) ==
    LET nl == Newlines(s)
    IN  IF Cardinality(nl) < 2
        THEN [ok |-> FALSE, path |-> << >>, timestamp |-> << >>, body |-> << >>]
        ELSE LET n1 == Min(nl)
                 n2 == Min(nl \ {n1})
             IN  [ok |-> TRUE,
                  path |-> SubSeq(s, 1, n1 - 1),
                  timestamp |-> SubSeq(s, n1 + 1, n2 - 1),
                  body |-> SubSeq(s, n2 + 1, Len(s))]

IsDigit(ch) == \E i \in 1..Len(Digits) : Digits[i] = ch

IsDec(s) ==
    /\ Len(s) > 0
    /\ \A i \in 1..Len(s) : IsDigit(s[i])
    /\ Len(s) = 1 \/ s[1] # "0"

RECURSIVE ParseDec(_)
ParseDec(s) ==
    IF Len(s) = 0 THEN 0
    ELSE ParseDec(SubSeq(s, 1, Len(s) - 1)) * 10 + (IndexIn(Digits, s[Len(s)]) - 1)

\* the positions where k occurs in text
Occurrences(text, k) ==
    {i \in 1..(Len(text) - Len(k) + 1) : SubSeq(text, i, i + Len(k) - 1) = k}

HasField(text, k) == Cardinality(Occurrences(text, k)) = 1

\* the value that follows the key k, up to the next comma or closing brace
Field(text, k) ==
    LET from == Min(Occurrences(text, k)) + Len(k)
        to == Min({i \in from..Len(text) : text[i] \in {",", "}"}})
    IN  SubSeq(text, from, to - 1)

\* the message a signature was computed over, as text and split
SignedText(sig) == Decode(sig.b64encode.msg)

Signed(sig) == Split(SignedText(sig))

\* the string operation o passes to request() as data, empty when it passes None
BodyText(o) == IF RequestArgs(o).data = None THEN << >> ELSE RequestArgs(o).data[1]

InFlight(c) == pc[c] \in {"waiting", "done"}

(* ---------------------------------------------------------------------- *)
(* Claims                                                                  *)
(* ---------------------------------------------------------------------- *)

\* C1: in every request handed to the transport, also when the calls of
\* several callers interleave, the timestamp header is the timestamp in the
\* message that request's signature was computed over, and both are the
\* ones computed by that same call.
C1_TimestampHeaderIsSigned ==
    \A c \in Callers :
        InFlight(c) =>
            LET m == Signed(req[c].headers.signature)
            IN  /\ m.ok
                /\ IsDec(m.timestamp)
                /\ ParseDec(m.timestamp) = req[c].headers.timestamp
                /\ req[c].headers.timestamp = timestamp[c]
                /\ m.path = path[c]
                /\ req[c].headers.signature = signature[c]

\* two calls are in flight together with different timestamps, and the clock
\* has moved on since one of them was stamped
C1_Witness ==
    /\ pc["t1"] = "waiting"
    /\ pc["t2"] = "waiting"
    /\ req["t1"].headers.timestamp # req["t2"].headers.timestamp
    /\ req["t1"].headers.timestamp # Time
    /\ path["t1"] # path["t2"]

\* C2: in any 10-second window at most 25 requests of the fast bucket and
\* at most 10 requests of the slow bucket are handed to the transport.
C2_RateLimited ==
    \A b \in DOMAIN sendTimes : Len(Recent(sendTimes[b])) <= BucketLimit(b)

\* C3: the requests sent for each withdrawal path are exactly the
\* invocations of that withdrawal that have reached the transport: never
\* more than one request per invocation, whatever the transport answered.
C3_WithdrawSentOnce ==
    \A n \in WithdrawNames :
        /\ sent[n] <= invoked[n]
        /\ sent[n] + Cardinality({c \in Callers : op[c].name = n /\ fetches[c] = 0})
               = invoked[n]

\* two withdrawals were invoked, one of them has failed, and two requests
\* were sent
C3_Witness ==
    /\ pc["t1"] = "done"
    /\ op["t1"].name = "withdraw_crypto"
    /\ answer["t1"].kind # "ok"
    /\ outcome["t1"].kind = "raise"
    /\ invoked["withdraw_crypto"] = 2
    /\ sent["withdraw_crypto"] = 2

\* C4: a non-idempotent call answered with a timeout or a 5xx status ends
\* in an AmbiguousFailureError.
C4_AmbiguousFailure ==
    \A c \in Callers :
        ( /\ pc[c] = "done"
          /\ op[c].name \in NonIdempotent
          /\ \/ answer[c].kind \in {"connect_timeout", "read_timeout"}
             \/ answer[c].kind = "status" /\ answer[c].code >= 500 )
        => /\ outcome[c].kind = "raise"
           /\ outcome[c].exc = "AmbiguousFailureError"

\* C5: when the transport call fails (connection error, timeout, non-2xx
\* status) the operation ends in an error and returns no value.
C5_ErrorsPropagate ==
    \A c \in Callers :
        (pc[c] = "done" /\ answer[c].kind # "ok") =>
            /\ outcome[c].kind = "raise"
            /\ outcome[c].exc \in {"HTTPError", "URLError", "timeout"}

\* balance() was called and the fetch timed out: the caller gets the error
C5_Witness ==
    /\ pc["t1"] = "done"
    /\ op["t1"].name = "balance"
    /\ answer["t1"].kind = "read_timeout"
    /\ outcome["t1"].kind = "raise"

\* C6: balance(currency) returns 0 when no fetched entry has the currency
\* and the balance of the first matching entry otherwise, after exactly one
\* fetch.
C6_Balance ==
    \A c \in Callers :
        (pc[c] = "done" /\ op[c].name = "balance" /\ answer[c].kind = "ok") =>
            LET entries == answer[c].json
                matches == {i \in 1..Len(entries) :
                               entries[i].currency = op[c].currency}
            IN  /\ outcome[c].kind = "return"
                /\ matches = {} => outcome[c].value = 0
                /\ matches # {} => outcome[c].value = entries[Min(matches)].balance
                /\ fetches[c] = 1

\* two entries of the currency with different balances: the first is returned
C6_Witness ==
    /\ pc["t1"] = "done"
    /\ op["t1"].name = "balance"
    /\ answer["t1"].kind = "ok"
    /\ Len(answer["t1"].json) = 2
    /\ answer["t1"].json[1].currency = op["t1"].currency
    /\ answer["t1"].json[2].currency = op["t1"].currency
    /\ answer["t1"].json[1].balance # answer["t1"].json[2].balance
    /\ outcome["t1"].value = answer["t1"].json[1].balance

\* C7: cancel_order([]) returns a result with an empty responses list and
\* does not end in an error.
C7_CancelNothing ==
    \A c \in Callers :
        (pc[c] = "done" /\ op[c].name = "cancel_order" /\ op[c].order_ids = << >>) =>
            /\ outcome[c].kind = "return"
            /\ outcome[c].value.responses = << >>

\* C8: the signed message is the path, a newline, the decimal timestamp, a
\* newline and the body; nothing follows the second newline when there is
\* no body.
C8_SignedMessage ==
    \A c \in Callers :
        pc[c] \in {"signed", "waiting", "done"} =>
            LET m == Signed(signature[c])
            IN  /\ m.ok
                /\ m.path = path[c]
                /\ IsDec(m.timestamp)
                /\ ParseDec(m.timestamp) = timestamp[c]
                /\ m.body = BodyText(op[c])
                /\ RequestArgs(op[c]).data = None =>
                       Len(signature[c].b64encode.msg)
                           = Len(path[c]) + Len(m.timestamp) + 2

\* a request without body, stamped after the clock moved, is signed: the
\* message ends with the second newline
C8_Witness ==
    /\ pc["t1"] = "signed"
    /\ RequestArgs(op["t1"]).data = None
    /\ timestamp["t1"] > 0
    /\ SignedText(signature["t1"])[Len(payload["t1"])] = "\n"

\* C9: market_bid and market_ask pass to request() a body for /order/create
\* with price 0, ordertype Market, the volume unchanged and their side;
\* limit_bid and limit_ask pass the price and volume unchanged with
\* ordertype Limit and their side.
C9_Wrappers ==
    \A c \in Callers :
        (pc[c] = "called" /\ op[c].name \in {"market_bid", "market_ask",
                                               "limit_bid", "limit_ask"}) =>
            LET o == op[c]
                body == data[c][1]
                market == o.name \in {"market_bid", "market_ask"}
                bid == o.name \in {"market_bid", "limit_bid"}
            IN  /\ path[c] = <<"/","o","r","d","e","r","/","c","r","e","a","t","e">>
                /\ \A k \in {<<"\"","p","r","i","c","e","\"",":">>, <<"\"","v","o","l","u","m","e","\"",":">>, <<"\"","o","r","d","e","r","S","i","d","e","\"",":">>, <<"\"","o","r","d","e","r","t","y","p","e","\"",":">>,
                              <<"\"","i","n","s","t","r","u","m","e","n","t","\"",":">>, <<"\"","c","u","r","r","e","n","c","y","\"",":">>} : HasField(body, k)
                /\ Field(body, <<"\"","p","r","i","c","e","\"",":">>) = IF market THEN <<"0">> ELSE Dec(o.price)
                /\ Field(body, <<"\"","v","o","l","u","m","e","\"",":">>) = Dec(o.volume)
                /\ Field(body, <<"\"","o","r","d","e","r","S","i","d","e","\"",":">>) = IF bid THEN <<"\"","B","i","d","\"">> ELSE <<"\"","A","s","k","\"">>
                /\ Field(body, <<"\"","o","r","d","e","r","t","y","p","e","\"",":">>) = IF market THEN <<"\"","M","a","r","k","e","t","\"">> ELSE <<"\"","L","i","m","i","t","\"">>
                /\ Field(body, <<"\"","i","n","s","t","r","u","m","e","n","t","\"",":">>) = <<"\"">> \o o.instrument \o <<"\"">>
                /\ Field(body, <<"\"","c","u","r","r","e","n","c","y","\"",":">>) = <<"\"">> \o o.currency \o <<"\"">>

\* market_ask was invoked with a volume of one whole unit
C9_Witness ==
    /\ pc["t1"] = "called"
    /\ op["t1"].name = "market_ask"
    /\ op["t1"].volume = 100000000
    /\ Field(data["t1"][1], <<"\"","p","r","i","c","e","\"",":">>) = <<"0">>

\* C10: what is sent is what was signed: the URL is the base URL followed
\* by the path of the signed message, query string included, and the bytes
\* sent are the encoding of the body of the signed message; a request
\* without body signs none and sends none.
C10_SentIsSigned ==
    \A c \in Callers :
        InFlight(c) =>
            LET m == Signed(req[c].headers.signature)
            IN  /\ m.ok
                /\ req[c].url = api_url \o m.path
                /\ (req[c].data = None) = (RequestArgs(op[c]).data = None)
                /\ req[c].data = None => m.body = << >>
                /\ req[c].data # None => Decode(req[c].data[1]) = m.body

\* market_trades with a since id is in flight: its path carries a query string
C10_Witness ==
    /\ pc["t1"] = "waiting"
    /\ op["t1"].name = "market_trades"
    /\ op["t1"].since_id # None
    /\ \E i \in 1..Len(req["t1"].url) : req["t1"].url[i] = "?"

====
